---- MODULE Spec2Model ----
(***************************************************************************)
(* Turf engine of CivicVoice (server/src/routes/turfs.js, lists.js and the *)
(* list_voters / turfs tables of server/src/db/migrate.js).                *)
(*                                                                         *)
(* Numbers.  JavaScript doubles are modelled as exact rationals with the   *)
(* common denominator Den: a door coordinate g on the grid is the integer  *)
(* g * Den, so that every mean of at most MaxDoors door coordinates is an  *)
(* integer again.  One grid step is GridStep * 0.0001 degree.  NaN and     *)
(* Infinity are two values outside the naturals; the arithmetic and the    *)
(* comparisons below propagate them as IEEE-754 does.                      *)
(***************************************************************************)
EXTENDS Integers, Sequences, FiniteSets, TLC

\* ---------------------------------------------------------------- bounds
MaxDoors == 4
MaxStops == 3
MaxVoters == 3
MaxKeys == 2
GridMax == 2
GridStep == 3
MaxLists == 2
MaxTurfs == 3
MaxRequests == 4

\* ------------------------------------------------------- program constants
maxIterations == 50
R == 6371000

\* ------------------------------------------------------------- arithmetic
NaN == 0 - 1
Infinity == 0 - 2

RECURSIVE Gcd(_, _)
Gcd(a, b) == IF b = 0 THEN a ELSE Gcd(b, a % b)

RECURSIVE LcmUpTo(_)
LcmUpTo(n) == IF n <= 1 THEN 1 ELSE LET l == LcmUpTo(n - 1) IN (l * n) \div Gcd(l, n)

Den == LcmUpTo(MaxDoors)

\* a + b, a - b, |a|, a / n on doubles
Add(a, b) == IF a = NaN \/ b = NaN THEN NaN ELSE a + b
AbsDiff(a, b) == IF a = NaN \/ b = NaN THEN NaN ELSE IF a >= b THEN a - b ELSE b - a
Div(a, n) == IF a = NaN THEN NaN ELSE a \div n

\* a < b on doubles: false as soon as one side is NaN
Lt(a, b) ==
  /\ a # NaN
  /\ b # NaN
  /\ a # Infinity
  /\ (b = Infinity \/ a < b)

\* ---------------------------------------------------------------- points
\* The door coordinates of the model: the grid points (la, ln) on the two
\* axes through (1, 1), and a point that was geocoded to NaN.
GridCells == {c \in (1..GridMax) \X (1..GridMax) : c[1] = 1 \/ c[2] = 1}
GridPoints == {[lat |-> c[1] * Den, lng |-> c[2] * Den] : c \in GridCells}
NaNPoint == [lat |-> NaN, lng |-> NaN]
Points == GridPoints \cup {NaNPoint}

\* Great-circle distance of two points.  On the grid (a few thousandths of
\* a degree, next to the equator) the haversine formula is the planar
\* distance R * sqrt(dLat^2 + dLng^2); the model carries the distance as
\* dLat^2 + dLng^2, which orders and ties exactly as the distance does.
\* A NaN coordinate gives NaN.
haversineDistance(lat1, lng1, lat2, lng2) ==
  IF lat1 = NaN \/ lng1 = NaN \/ lat2 = NaN \/ lng2 = NaN
  THEN NaN
  ELSE LET dLat == AbsDiff(lat2, lat1)
           dLng == AbsDiff(lng2, lng1)
       IN dLat * dLat + dLng * dLng

\* -------------------------------------------------------------- clusterDoors
\* A door (household) is [id, lat, lng, ncids]; a centroid is [lat, lng].

\* The inner forEach with `dist <= minDist`: the last centroid at smallest
\* distance.
RECURSIVE NearestFromLastTie(_, _, _, _, _)
NearestFromLastTie(door, centroids, i, minDist, nearest) ==
  IF i > Len(centroids)
  THEN nearest
  ELSE LET dist == haversineDistance(door.lat, door.lng, centroids[i].lat, centroids[i].lng)
       IN IF Lt(dist, minDist) \/ (dist # NaN /\ dist = minDist)
          THEN NearestFromLastTie(door, centroids, i + 1, dist, i)
          ELSE NearestFromLastTie(door, centroids, i + 1, minDist, nearest)

\* The inner centroids.forEach of an assignment pass: the index of the first
\* centroid at strictly smallest distance, 1 (index 0 in the source) when no
\* distance compares smaller than Infinity.
RECURSIVE NearestFrom(_, _, _, _, _)
NearestFrom(door, centroids, i, minDist, nearest) ==
  IF i > Len(centroids)
  THEN nearest
  ELSE LET dist == haversineDistance(door.lat, door.lng, centroids[i].lat, centroids[i].lng)
       IN IF Lt(dist, minDist)
          THEN NearestFrom(door, centroids, i + 1, dist, i)
          ELSE NearestFrom(door, centroids, i + 1, minDist, nearest)

Nearest(door, centroids) == NearestFrom(door, centroids, 1, Infinity, 1)

\* Array.from({ length: k }, () => [])
RECURSIVE EmptyClusters(_)
EmptyClusters(k) == IF k = 0 THEN <<>> ELSE Append(EmptyClusters(k - 1), <<>>)

\* One assignment pass over doors[1..n]: every door is pushed, in input
\* order, to the cluster of its nearest centroid.
RECURSIVE AssignUpTo(_, _, _, _)
AssignUpTo(doors, centroids, k, n) ==
  IF n = 0
  THEN EmptyClusters(k)
  ELSE LET before == AssignUpTo(doors, centroids, k, n - 1)
           nearest == Nearest(doors[n], centroids)
       IN [before EXCEPT ![nearest] = Append(@, doors[n])]

AssignDoors(doors, centroids, k) == AssignUpTo(doors, centroids, k, Len(doors))

RECURSIVE SumLat(_, _)
SumLat(cluster, i) == IF i = 0 THEN 0 ELSE Add(SumLat(cluster, i - 1), cluster[i].lat)

RECURSIVE SumLng(_, _)
SumLng(cluster, i) == IF i = 0 THEN 0 ELSE Add(SumLng(cluster, i - 1), cluster[i].lng)

\* NewCentroid with a sum that leaves out the last member.
NewCentroidSkipLast(cluster) ==
  IF Len(cluster) = 0
  THEN [lat |-> 0, lng |-> 0]
  ELSE [lat |-> Div(SumLat(cluster, Len(cluster) - 1), Len(cluster)),
        lng |-> Div(SumLng(cluster, Len(cluster) - 1), Len(cluster))]

\* "Update centroids": the mean of the members, {lat: 0, lng: 0} when empty.
NewCentroid(cluster) ==
  IF Len(cluster) = 0
  THEN [lat |-> 0, lng |-> 0]
  ELSE [lat |-> Div(SumLat(cluster, Len(cluster)), Len(cluster)),
        lng |-> Div(SumLng(cluster, Len(cluster)), Len(cluster))]

RECURSIVE NewCentroidsUpTo(_, _)
NewCentroidsUpTo(clusters, j) ==
  IF j = 0 THEN <<>> ELSE Append(NewCentroidsUpTo(clusters, j - 1), NewCentroid(clusters[j]))

NewCentroids(clusters) == NewCentroidsUpTo(clusters, Len(clusters))

\* Math.abs(a - b) > 0.0001 (degrees); a model unit is GridStep / Den
\* ten-thousandths of a degree.
MovedAxis(a, b) ==
  IF AbsDiff(a, b) = NaN THEN FALSE ELSE AbsDiff(a, b) * GridStep > Den

\* "Check convergence"
Moved(centroids, newCentroids) ==
  \E i \in 1..Len(centroids) :
    \/ MovedAxis(centroids[i].lat, newCentroids[i].lat)
    \/ MovedAxis(centroids[i].lng, newCentroids[i].lng)

\* The for loop with `if (moved) break`.
RECURSIVE KMeansLoopBreakOnMove(_, _, _, _)
KMeansLoopBreakOnMove(doors, k, centroids, iter) ==
  IF iter >= maxIterations
  THEN [centroids |-> centroids, iters |-> iter, converged |-> FALSE]
  ELSE LET newCentroids == NewCentroids(AssignDoors(doors, centroids, k))
       IN IF Moved(centroids, newCentroids)
          THEN [centroids |-> newCentroids, iters |-> iter + 1, converged |-> TRUE]
          ELSE KMeansLoopBreakOnMove(doors, k, newCentroids, iter + 1)

\* The for loop: the centroids it leaves behind and the passes it ran.
RECURSIVE KMeansLoop(_, _, _, _)
KMeansLoop(doors, k, centroids, iter) ==
  IF iter >= maxIterations
  THEN [centroids |-> centroids, iters |-> iter, converged |-> FALSE]
  ELSE LET newCentroids == NewCentroids(AssignDoors(doors, centroids, k))
       IN IF ~Moved(centroids, newCentroids)
          THEN [centroids |-> newCentroids, iters |-> iter + 1, converged |-> TRUE]
          ELSE KMeansLoop(doors, k, newCentroids, iter + 1)

RECURSIVE FlatNcids(_, _)
FlatNcids(cluster, i) == IF i = 0 THEN <<>> ELSE FlatNcids(cluster, i - 1) \o cluster[i].ncids

\* shuffled.slice(0, k).map(...): seeds is the order Math.random produced.
RECURSIVE SeedCentroidsUpTo(_, _, _)
SeedCentroidsUpTo(doors, seeds, i) ==
  IF i = 0
  THEN <<>>
  ELSE Append(SeedCentroidsUpTo(doors, seeds, i - 1),
              [lat |-> doors[seeds[i]].lat, lng |-> doors[seeds[i]].lng])

SeedCentroids(doors, k, seeds) == SeedCentroidsUpTo(doors, seeds, k)

\* TurfObjects without the filter: empty clusters are returned too.
TurfObjectsKeepEmpty(clusters, centroids) ==
  [i \in 1..Len(clusters) |->
     [doors |-> clusters[i],
      ncids |-> FlatNcids(clusters[i], Len(clusters[i])),
      center |-> centroids[i]]]

\* .filter(c => c.length > 0).map((cluster, i) => ... centroids[i])
TurfObjects(clusters, centroids) ==
  LET kept == SelectSeq(clusters, LAMBDA c : Len(c) > 0)
  IN [i \in 1..Len(kept) |->
        [doors |-> kept[i],
         ncids |-> FlatNcids(kept[i], Len(kept[i])),
         center |-> centroids[i]]]

\* SingletonTurfs with the two coordinates of the center exchanged.
SingletonTurfsSwapped(doors) ==
  [i \in 1..Len(doors) |->
     [doors |-> <<doors[i]>>,
      ncids |-> doors[i].ncids,
      center |-> [lat |-> doors[i].lng, lng |-> doors[i].lat]]]

\* "Each door is its own turf"
SingletonTurfs(doors) ==
  [i \in 1..Len(doors) |->
     [doors |-> <<doors[i]>>,
      ncids |-> doors[i].ncids,
      center |-> [lat |-> doors[i].lat, lng |-> doors[i].lng]]]

\* What the call computes: the turf objects returned, and the centroids and
\* clusters of the final assignment pass (none when it returns early).
clusterDoorsRun(doors, k, seeds) ==
  IF Len(doors) = 0
  THEN [result |-> <<>>, centroids |-> <<>>, clusters |-> <<>>, iters |-> 0]
  ELSE IF k >= Len(doors)
  THEN [result |-> SingletonTurfs(doors), centroids |-> <<>>, clusters |-> <<>>, iters |-> 0]
  ELSE LET loop == KMeansLoop(doors, k, SeedCentroids(doors, k, seeds), 0)
           clusters == AssignDoors(doors, loop.centroids, k)
       IN [result |-> TurfObjects(clusters, loop.centroids),
           centroids |-> loop.centroids, clusters |-> clusters, iters |-> loop.iters]

clusterDoors(doors, k, seeds) == clusterDoorsRun(doors, k, seeds).result

\* ------------------------------------------------------- nearestNeighborRoute
\* The points are named by their place in the argument list; route and
\* remaining are sequences of places (a JavaScript Set iterates in insertion
\* order).  0 stands for null.

\* The for loop that takes the first point of remaining, whatever its
\* distance.
NNNearestFirst(points, current, remaining, i, minDist, nearest) ==
  IF Len(remaining) > 0 THEN remaining[1] ELSE nearest

\* The for loop over remaining: the first point at strictly smallest distance
\* from current, null when no distance compares smaller than Infinity.
RECURSIVE NNNearestFrom(_, _, _, _, _, _)
NNNearestFrom(points, current, remaining, i, minDist, nearest) ==
  IF i > Len(remaining)
  THEN nearest
  ELSE LET point == points[remaining[i]]
           dist == haversineDistance(points[current].lat, points[current].lng,
                                     point.lat, point.lng)
       IN IF Lt(dist, minDist)
          THEN NNNearestFrom(points, current, remaining, i + 1, dist, remaining[i])
          ELSE NNNearestFrom(points, current, remaining, i + 1, minDist, nearest)

\* NNPass that pushes the nearest point and leaves it in remaining.
NNPassKeep(points, route, remaining) ==
  LET nearest == NNNearestFrom(points, route[Len(route)], remaining, 1, Infinity, 0)
  IN IF nearest # 0
     THEN [route |-> Append(route, nearest), remaining |-> remaining]
     ELSE [route |-> route, remaining |-> remaining]

\* One pass of the while loop.
NNPass(points, route, remaining) ==
  LET nearest == NNNearestFrom(points, route[Len(route)], remaining, 1, Infinity, 0)
  IN IF nearest # 0
     THEN [route |-> Append(route, nearest),
           remaining |-> SelectSeq(remaining, LAMBDA q : q # nearest)]
     ELSE [route |-> route, remaining |-> remaining]

\* ----------------------------------------------------- household aggregation
\* A loaded voter row is [ncid, household_id, lat, lng]; NoKey is the NULL
\* household_id a membership record has until the list is householded.
NoKey == 0

\* The place of the household with this key in the Map, 0 when it has none.
DoorIndex(doors, key) ==
  IF \E d \in 1..Len(doors) : doors[d].id = key
  THEN CHOOSE d \in 1..Len(doors) : doors[d].id = key
  ELSE 0

\* HouseholdsUpTo that overwrites the coordinates with those of each later
\* voter of the household.
RECURSIVE HouseholdsLastSeen(_, _)
HouseholdsLastSeen(voters, n) ==
  IF n = 0
  THEN <<>>
  ELSE LET before == HouseholdsLastSeen(voters, n - 1)
           v == voters[n]
           at == DoorIndex(before, v.household_id)
       IN IF v.household_id = NoKey
          THEN before
          ELSE IF at = 0
          THEN Append(before, [id |-> v.household_id, lat |-> v.lat, lng |-> v.lng,
                               ncids |-> <<v.ncid>>])
          ELSE [before EXCEPT ![at] = [id |-> v.household_id, lat |-> v.lat, lng |-> v.lng,
                                       ncids |-> Append(before[at].ncids, v.ncid)]]

\* voters.forEach over the first n rows: the Map of households, in the order
\* their keys were first seen.
RECURSIVE HouseholdsUpTo(_, _)
HouseholdsUpTo(voters, n) ==
  IF n = 0
  THEN <<>>
  ELSE LET before == HouseholdsUpTo(voters, n - 1)
           v == voters[n]
           at == DoorIndex(before, v.household_id)
       IN IF v.household_id = NoKey
          THEN before
          ELSE IF at = 0
          THEN Append(before, [id |-> v.household_id, lat |-> v.lat, lng |-> v.lng,
                               ncids |-> <<v.ncid>>])
          ELSE [before EXCEPT ![at].ncids = Append(@, v.ncid)]

\* const doors = Array.from(households.values())
Households(voters) == HouseholdsUpTo(voters, Len(voters))

\* ------------------------------------------------------------------ state
VARIABLES
  cluster,  \* one call of clusterDoors: its arguments, Math.random's order, its result
  nn,       \* one call of nearestNeighborRoute: its argument, route, remaining, position
  agg,      \* one run of the household aggregation: the rows loaded, the doors
  voterTable,   \* table voters: address, precinct and location of every voter
  lists,        \* table lists: the owner of every list row
  list_voters,  \* table list_voters: the membership record of (list, voter)
  turfs,        \* table turfs
  nextListId,   \* the SERIAL sequence of lists.id
  nextTurfId,   \* the SERIAL sequence of turfs.id
  req,          \* the request being served: its handler, position, locals, response
  other,        \* a second request, waiting at an await of its handler
  routeWrites,  \* history: how often route_data of a turf was written
  firstRoute    \* history: the first route written onto a turf

pureVars == <<cluster, nn, agg>>
dbVars == <<voterTable, lists, list_voters, turfs, nextListId, nextTurfId, req, other,
            routeWrites, firstRoute>>
vars == <<cluster, nn, agg, voterTable, lists, list_voters, turfs, nextListId,
          nextTurfId, req, other, routeWrites, firstRoute>>

ClusterIdle == [pc |-> "idle"]
NNIdle == [pc |-> "idle"]
AggIdle == [pc |-> "idle"]

\* The server is not part of the specifications of the single functions.
DbOff ==
  /\ voterTable = <<>>
  /\ lists = <<>>
  /\ list_voters = <<>>
  /\ turfs = <<>>
  /\ nextListId = 1
  /\ nextTurfId = 1
  /\ req = [op |-> "none", pc |-> "off"]
  /\ other = [op |-> "none", pc |-> "off"]
  /\ routeWrites = <<>>
  /\ firstRoute = <<>>

\* ------------------------------------------- specification of clusterDoors
\* Household i of the argument list; households with an even key have two
\* voters, the others one.
NcidsOfDoor(i) == IF i % 2 = 0 THEN <<i, i + MaxDoors + 1>> ELSE <<i>>

DoorsFrom(coords) ==
  [i \in 1..Len(coords) |->
     [id |-> i, lat |-> coords[i].lat, lng |-> coords[i].lng, ncids |-> NcidsOfDoor(i)]]

\* The points in a fixed order: 0 is the NaN point, la * (GridMax + 1) + ln
\* the grid point (la, ln).
PointCodes == {0} \cup {c[1] * (GridMax + 1) + c[2] : c \in GridCells}

PointOf(code) ==
  IF code = 0
  THEN NaNPoint
  ELSE [lat |-> (code \div (GridMax + 1)) * Den, lng |-> (code % (GridMax + 1)) * Den]

\* The orders the random sort can leave in the first k places.
SeedOrders(n, k) ==
  IF k >= n
  THEN {[i \in 1..n |-> i]}
  ELSE {s \in [1..k -> 1..n] : \A a, b \in 1..k : a # b => s[a] # s[b]}

\* The calls of the model: every list of at most MaxDoors households, every
\* k from 1 (autoCut passes max(1, ...)) and every order of the shuffle.
\* clusterDoors treats its households alike whatever their place in the
\* list, and the shuffle ranges over all places, so the lists are taken with
\* their points in ascending order.
Ascending(codes) == \A i \in 1..(Len(codes) - 1) : codes[i] <= codes[i + 1]

InitCluster ==
  \E n \in 0..MaxDoors :
    \E codes \in {c \in [1..n -> PointCodes] : Ascending(c)} :
      \E k \in 1..MaxDoors :
        \E s \in SeedOrders(n, k) :
          /\ cluster = [pc |-> "call", doors |-> DoorsFrom([i \in 1..n |-> PointOf(codes[i])]),
                        k |-> k, seeds |-> s]
          /\ nn = NNIdle
          /\ agg = AggIdle
          /\ DbOff

ClusterRun ==
  /\ cluster.pc = "call"
  /\ LET run == clusterDoorsRun(cluster.doors, cluster.k, cluster.seeds)
     IN cluster' = [pc |-> "done", doors |-> cluster.doors, k |-> cluster.k,
                    seeds |-> cluster.seeds, result |-> run.result,
                    centroids |-> run.centroids, clusters |-> run.clusters,
                    iters |-> run.iters]
  /\ UNCHANGED <<nn, agg>>
  /\ UNCHANGED dbVars

NextCluster == ClusterRun

SpecCluster == InitCluster /\ [][NextCluster]_vars

\* ----------------------------------- specification of nearestNeighborRoute
\* Every list of at most MaxStops points.  The source's loop has no bound;
\* the model follows it for PassCap passes.
PassCap == MaxStops + 1

\* Two more points on the meridian through grid point (1, 1): 0.0009 and
\* 0.0027 degree (100 m and 300 m) north of it.
HundredMetres == (9 * Den) \div GridStep
ScenarioPoints == {[lat |-> Den + j * HundredMetres, lng |-> Den] : j \in {1, 3}}
RoutePoints == Points \cup ScenarioPoints

InitRoute ==
  /\ cluster = ClusterIdle
  /\ agg = AggIdle
  /\ DbOff
  /\ \E n \in 0..MaxStops :
       \E points \in [1..n -> RoutePoints] :
         nn = [pc |-> "call", points |-> points, route |-> <<>>, remaining |-> <<>>,
               passes |-> 0]

\* Lines 577-580: the early return, or the first stop and the unvisited set.
NNStart ==
  /\ nn.pc = "call"
  /\ nn' = IF Len(nn.points) <= 1
           THEN [nn EXCEPT !.pc = "done", !.route = [i \in 1..Len(nn.points) |-> i]]
           ELSE [nn EXCEPT !.pc = "loop", !.route = <<1>>,
                           !.remaining = [i \in 1..(Len(nn.points) - 1) |-> i + 1]]
  /\ UNCHANGED <<cluster, agg>>
  /\ UNCHANGED dbVars

\* One pass of while (remaining.size > 0).
NNLoop ==
  /\ nn.pc = "loop"
  /\ Len(nn.remaining) > 0
  /\ nn.passes < PassCap
  /\ LET next == NNPass(nn.points, nn.route, nn.remaining)
     IN nn' = [nn EXCEPT !.route = next.route, !.remaining = next.remaining,
                         !.passes = nn.passes + 1]
  /\ UNCHANGED <<cluster, agg>>
  /\ UNCHANGED dbVars

\* The loop condition fails: return route.
NNReturn ==
  /\ nn.pc = "loop"
  /\ Len(nn.remaining) = 0
  /\ nn' = [nn EXCEPT !.pc = "done"]
  /\ UNCHANGED <<cluster, agg>>
  /\ UNCHANGED dbVars

NextRoute == NNStart \/ NNLoop \/ NNReturn

SpecRoute == InitRoute /\ [][NextRoute]_vars

\* The calls of clusterDoors and of nearestNeighborRoute side by side.
InitTies == InitCluster \/ InitRoute

NextTies == NextCluster \/ NextRoute

SpecTies == InitTies /\ [][NextTies]_vars

\* -------------------------------- specification of the household aggregation
\* The rows the autoCut query loaded: voter i in place i (list_voters has
\* one row per list and ncid), any household key or none, a location on the
\* first meridian of the grid or NaN.
VoterPoints == {p \in Points : p.lng = Den \/ p.lng = NaN}

InitAgg ==
  /\ cluster = ClusterIdle
  /\ nn = NNIdle
  /\ DbOff
  /\ \E n \in 0..MaxVoters :
       \E keys \in [1..n -> 0..MaxKeys] :
         \E locs \in [1..n -> VoterPoints] :
           agg = [pc |-> "loaded",
                  voters |-> [i \in 1..n |->
                                [ncid |-> i, household_id |-> keys[i],
                                 lat |-> locs[i].lat, lng |-> locs[i].lng]],
                  doors |-> <<>>]

\* Lines 107-126.
AggRun ==
  /\ agg.pc = "loaded"
  /\ agg' = [agg EXCEPT !.pc = "done", !.doors = Households(agg.voters)]
  /\ UNCHANGED <<cluster, nn>>
  /\ UNCHANGED dbVars

NextAgg == AggRun

SpecAgg == InitAgg /\ [][NextAgg]_vars

\* ------------------------------------------------------------- the server
\* One request is served at a time; a handler is followed from one database
\* statement (await) to the next.  Left out: names and descriptions, the
\* contact history, and sort_order (it follows the voter number, which is
\* also the order in which the queries return their rows).

Users == {1, 2}
NCIDs == 1..MaxVoters
ListIds == 1..MaxLists
TurfIds == 1..MaxTurfs
NoUser == 0   \* no row / no such owner
NoList == 0   \* list_id missing from the request body
NoTurf == 0   \* turf_id NULL
Methods == {"cluster", "grid", "precinct"}
DoorsPerTurf == {1, 2}

\* The voters of the model: voters 1 and 2 live at address 1, voter n > 2 at
\* address n - 1; the addresses lie on the grid. voters.precinct_name is a
\* column of its own, imported from the voter file: voter 1 is registered in
\* precinct 1, voter n > 2 in precinct 2, and voter 2 in either.
AddressOf(ncid) == IF ncid <= 2 THEN 1 ELSE ncid - 1
PrecinctOf(ncid) == IF ncid <= 2 THEN 1 ELSE 2
AddressCell(a) == IF a <= GridMax THEN <<1, a>> ELSE <<a - GridMax + 1, 1>>
Precincts == {PrecinctOf(n) : n \in NCIDs}

PrecinctTables == {[n \in NCIDs |-> IF n = 2 THEN p ELSE PrecinctOf(n)] : p \in Precincts}

VoterRow(ncid, geocoded, precincts) ==
  [street_address |-> AddressOf(ncid), precinct_name |-> precincts[ncid],
   located |-> ncid \in geocoded,
   lat |-> AddressCell(AddressOf(ncid))[1] * Den,
   lng |-> AddressCell(AddressOf(ncid))[2] * Den]

NoMember == [member |-> FALSE, household_id |-> NoKey, turf_id |-> NoTurf]
NoRow == [exists |-> FALSE]
NoRes == [status |-> 0]
\* The model follows the server for MaxRequests requests.
Quiet == req.pc \in {"idle", "done"} /\ req.seq < MaxRequests
Done(r, status, body) == [r EXCEPT !.pc = "done", !.res = [status |-> status, body |-> body]]

Max(a, b) == IF a >= b THEN a ELSE b
Minimum(S) == CHOOSE x \in S : \A y \in S : x <= y

\* The elements of a set of numbers in ascending order.
RECURSIVE Sorted(_)
Sorted(S) == IF S = {} THEN <<>> ELSE <<Minimum(S)>> \o Sorted(S \ {Minimum(S)})

\* Math.floor(n / d) + 1
CeilNextInteger(n, d) == n \div d + 1

\* Math.ceil(n / d) for n >= 0, d >= 1
Ceil(n, d) == (n + d - 1) \div d

RECURSIVE ISqrtIn(_, _, _)
ISqrtIn(n, lo, hi) ==
  IF lo >= hi
  THEN lo
  ELSE LET mid == (lo + hi + 1) \div 2
       IN IF mid * mid <= n THEN ISqrtIn(n, mid, hi) ELSE ISqrtIn(n, lo, mid - 1)

\* One grid step in centimetres: GridStep * 0.0001 degree of a circle of
\* radius R (pi taken as 355 / 113).
CmPerStep == (GridStep * (R \div 1000) * 355) \div (113 * 18)

\* The distance haversineDistance returned between two points, in
\* centimetres: the square root to a hundredth of the unit, times the
\* centimetres per unit.
DistanceCm(dist) ==
  IF dist = NaN
  THEN NaN
  ELSE (ISqrtIn(dist * 10000, 0, 46340) * CmPerStep) \div (100 * Den)

\* lists.js, MD5(UPPER(street_address | city | zip_code)): one key per address
HouseholdKey(ncid) == voterTable[ncid].street_address

\* The rows of the autoCut query: the geocoded members of the list, in the
\* order of the primary key.
RECURSIVE VoterRowsUpTo(_, _)
VoterRowsUpTo(list_id, n) ==
  IF n = 0
  THEN <<>>
  ELSE LET before == VoterRowsUpTo(list_id, n - 1)
       IN IF list_voters[list_id][n].member /\ voterTable[n].located
          THEN Append(before, [ncid |-> n,
                               household_id |-> list_voters[list_id][n].household_id,
                               lat |-> voterTable[n].lat, lng |-> voterTable[n].lng])
          ELSE before

VoterRows(list_id) == VoterRowsUpTo(list_id, MaxVoters)

\* ---------------------------------------------------------- groupByPrecinct
PrecinctMembers(listId, name) ==
  {n \in NCIDs : /\ list_voters[listId][n].member
                 /\ voterTable[n].located
                 /\ voterTable[n].precinct_name = name}

RECURSIVE SumOver(_, _)
SumOver(S, f) ==
  IF S = {} THEN 0 ELSE LET n == Minimum(S) IN Add(voterTable[n][f], SumOver(S \ {n}, f))

\* p.households.filter(h => h).map(h => ({ id: h }))
DoorsOfKeys(keys) == [i \in 1..Len(keys) |-> [id |-> keys[i]]]

\* One row of the GROUP BY and its turf object.
PrecinctGroup(listId, name) ==
  LET rows == PrecinctMembers(listId, name)
  IN [name |-> name,
      doors |-> DoorsOfKeys(Sorted({list_voters[listId][n].household_id : n \in rows}
                                   \ {NoKey})),
      ncids |-> Sorted(rows),
      center |-> [lat |-> Div(SumOver(rows, "lat"), Cardinality(rows)),
                  lng |-> Div(SumOver(rows, "lng"), Cardinality(rows))]]

RECURSIVE PrecinctGroupsOf(_, _)
PrecinctGroupsOf(listId, names) ==
  IF names = {}
  THEN <<>>
  ELSE LET name == Minimum(names)
       IN <<PrecinctGroup(listId, name)>> \o PrecinctGroupsOf(listId, names \ {name})

groupByPrecinct(listId) ==
  PrecinctGroupsOf(listId, {p \in Precincts : PrecinctMembers(listId, p) # {}})

\* ------------------------------------------------------------- createManual
\* The request polygons: none, a GeoJSON Point, a Polygon without
\* coordinates, and the rectangles around a block of grid cells (half a grid
\* step of margin on every side). The field coordinates tells whether the
\* object has coordinates.
Box(latFrom, latTo, lngFrom, lngTo) ==
  [type |-> "Polygon", coordinates |-> TRUE,
   latMin |-> latFrom * Den - Den \div 2, latMax |-> latTo * Den + Den \div 2,
   lngMin |-> lngFrom * Den - Den \div 2, lngMax |-> lngTo * Den + Den \div 2]

\* req.body.polygon undefined
NoPolygon == [Box(0, 0, 0, 0) EXCEPT !.type = "none", !.coordinates = FALSE]

Polygons ==
  {NoPolygon,
   [Box(1, 1, 1, 1) EXCEPT !.type = "Point"],
   [Box(1, GridMax, 1, GridMax) EXCEPT !.coordinates = FALSE],
   Box(1, 1, 1, 1), Box(1, GridMax, 1, GridMax), Box(GridMax + 1, GridMax + 1, 1, 1)}

\* The format test that looks at the type only.
PolygonFormatOkTypeOnly(polygon) == polygon.type = "Polygon"

\* !(!polygon.type || polygon.type !== 'Polygon' || !polygon.coordinates)
PolygonFormatOk(polygon) == polygon.type = "Polygon" /\ polygon.coordinates

\* ST_Within(v.location, polygon)
ST_Within(v, polygon) ==
  /\ polygon.latMin < v.lat
  /\ v.lat < polygon.latMax
  /\ polygon.lngMin < v.lng
  /\ v.lng < polygon.lngMax

ST_Centroid(polygon) ==
  [lat |-> (polygon.latMin + polygon.latMax) \div 2,
   lng |-> (polygon.lngMin + polygon.lngMax) \div 2]

\* The query without its ST_Within condition.
VotersInPolygonAnywhere(list_id, polygon) == VoterRows(list_id)

\* votersInPolygon
RECURSIVE VotersInPolygonUpTo(_, _, _)
VotersInPolygonUpTo(list_id, polygon, n) ==
  IF n = 0
  THEN <<>>
  ELSE LET before == VotersInPolygonUpTo(list_id, polygon, n - 1)
       IN IF /\ list_voters[list_id][n].member
             /\ voterTable[n].located
             /\ ST_Within(voterTable[n], polygon)
          THEN Append(before, [ncid |-> n,
                               household_id |-> list_voters[list_id][n].household_id])
          ELSE before

VotersInPolygon(list_id, polygon) == VotersInPolygonUpTo(list_id, polygon, MaxVoters)

\* new Set(votersInPolygon.map(v => v.household_id).filter(h => h))
UniqueHouseholds(rows) == {rows[i].household_id : i \in 1..Len(rows)} \ {NoKey}

\* AssignTurf that updates the record of the first ncid only.
AssignTurfFirstOnly(list_id, ncids, id) ==
  [list_voters EXCEPT ![list_id] =
     [n \in NCIDs |->
        IF list_voters[list_id][n].member /\ Len(ncids) > 0 /\ ncids[1] = n
        THEN [list_voters[list_id][n] EXCEPT !.turf_id = id]
        ELSE list_voters[list_id][n]]]

\* UPDATE list_voters SET turf_id = id WHERE list_id = ... AND ncid = ANY(ncids)
AssignTurf(list_id, ncids, id) ==
  [list_voters EXCEPT ![list_id] =
     [n \in NCIDs |->
        IF list_voters[list_id][n].member /\ (\E i \in 1..Len(ncids) : ncids[i] = n)
        THEN [list_voters[list_id][n] EXCEPT !.turf_id = id]
        ELSE list_voters[list_id][n]]]

\* ----------------------------------------------------------------- getRoute
\* RouteCached of a handler that never looks at the cache.
RouteCachedNever(turf) == FALSE

\* if (turf.route_data): route_data is <<>> for NULL, <<routeData>> otherwise
RouteCached(turf) == turf.route_data # <<>>

\* The addresses query without its condition on lv.turf_id.
RouteRowsAnyTurf(id, key) ==
  {n \in NCIDs :
     /\ voterTable[n].located
     /\ \E l \in ListIds : /\ list_voters[l][n].member
                           /\ list_voters[l][n].household_id = key}

\* The geocoded voters whose membership record, in any list, carries the turf
\* and the household key.
RouteRows(id, key) ==
  {n \in NCIDs :
     /\ voterTable[n].located
     /\ \E l \in ListIds : /\ list_voters[l][n].member
                           /\ list_voters[l][n].turf_id = id
                           /\ list_voters[l][n].household_id = key}

\* DISTINCT ON (household_id) ... ORDER BY household_id, sort_order: the first
\* row of every key, the keys ascending and NULL last; sort_order follows
\* the voter number.
RECURSIVE AddressesUpTo(_, _)
AddressesUpTo(id, key) ==
  IF key = 0
  THEN <<>>
  ELSE LET before == AddressesUpTo(id, key - 1)
           rows == RouteRows(id, key)
       IN IF rows = {}
          THEN before
          ELSE Append(before, [household_id |-> key,
                               lat |-> voterTable[Minimum(rows)].lat,
                               lng |-> voterTable[Minimum(rows)].lng])

Addresses(id) ==
  LET keyed == AddressesUpTo(id, MaxVoters)
      rows == RouteRows(id, NoKey)
  IN IF rows = {}
     THEN keyed
     ELSE Append(keyed, [household_id |-> NoKey,
                         lat |-> voterTable[Minimum(rows)].lat,
                         lng |-> voterTable[Minimum(rows)].lng])

\* while (remaining.size > 0): the places in visiting order; a pass that
\* moves nothing repeats forever (hung).
RECURSIVE NNWhile(_, _, _)
NNWhile(points, route, remaining) ==
  IF Len(remaining) = 0
  THEN [route |-> route, hung |-> FALSE]
  ELSE LET next == NNPass(points, route, remaining)
       IN IF next.remaining = remaining
          THEN [route |-> route, hung |-> TRUE]
          ELSE NNWhile(points, next.route, next.remaining)

nearestNeighborRoute(points) ==
  IF Len(points) <= 1
  THEN [route |-> [i \in 1..Len(points) |-> i], hung |-> FALSE]
  ELSE NNWhile(points, <<1>>, [i \in 1..(Len(points) - 1) |-> i + 1])

\* totalDistance of a loop that starts at i = 1 and so leaves out the first leg.
RECURSIVE TotalDistanceFromSecond(_, _, _)
TotalDistanceFromSecond(points, route, i) ==
  IF i <= 1
  THEN 0
  ELSE Add(TotalDistanceFromSecond(points, route, i - 1),
           DistanceCm(haversineDistance(points[route[i]].lat, points[route[i]].lng,
                                        points[route[i + 1]].lat, points[route[i + 1]].lng)))

\* totalDistance, in centimetres
RECURSIVE TotalDistance(_, _, _)
TotalDistance(points, route, i) ==
  IF i = 0
  THEN 0
  ELSE Add(TotalDistance(points, route, i - 1),
           DistanceCm(haversineDistance(points[route[i]].lat, points[route[i]].lng,
                                        points[route[i + 1]].lat, points[route[i + 1]].lng)))

\* routeData: the stops in order, Math.round(totalDistance) metres and
\* Math.round(route.length * 3 + totalDistance / 80) minutes.
RouteData(points, route) ==
  LET totalDistance == TotalDistance(points, route, Len(route) - 1)
  IN [route |-> [i \in 1..Len(route) |->
                   [order |-> i, household_id |-> points[route[i]].household_id,
                    lat |-> points[route[i]].lat, lng |-> points[route[i]].lng]],
      distance |-> IF totalDistance = NaN THEN NaN ELSE (totalDistance + 50) \div 100,
      estimatedDuration |->
        IF totalDistance = NaN
        THEN NaN
        ELSE (Len(route) * 3 * 8000 + totalDistance + 4000) \div 8000]

\* --------------------------------------------------------------- deleteTurf
\* The membership records (list, voter) that carry the turf id.
Carrying(id) ==
  {m \in ListIds \X NCIDs : list_voters[m[1]][m[2]].member /\ list_voters[m[1]][m[2]].turf_id = id}

\* ClearTurf restricted to the list the turf was cut from.
ClearTurfOwnList(id) ==
  [l \in ListIds |->
     [n \in NCIDs |->
        IF /\ list_voters[l][n].member
           /\ list_voters[l][n].turf_id = id
           /\ turfs[id].exists
           /\ turfs[id].list_id = l
        THEN [list_voters[l][n] EXCEPT !.turf_id = NoTurf]
        ELSE list_voters[l][n]]]

\* UPDATE list_voters SET turf_id = NULL WHERE turf_id = id
ClearTurf(id) ==
  [l \in ListIds |->
     [n \in NCIDs |->
        IF list_voters[l][n].member /\ list_voters[l][n].turf_id = id
        THEN [list_voters[l][n] EXCEPT !.turf_id = NoTurf]
        ELSE list_voters[l][n]]]

\* ------------------------------------------------------- the server's state
\* A list of all voters, created by user 1 and not yet householded (lists.js
\* inserts the membership records without household_id and turf_id); any
\* set of the voters is geocoded.
Init ==
  /\ cluster = ClusterIdle
  /\ nn = NNIdle
  /\ agg = AggIdle
  /\ \E geocoded \in SUBSET NCIDs, precincts \in PrecinctTables :
       voterTable = [n \in NCIDs |-> VoterRow(n, geocoded, precincts)]
  /\ lists = [l \in ListIds |-> IF l = 1 THEN 1 ELSE NoUser]
  /\ list_voters = [l \in ListIds |->
                      [n \in NCIDs |->
                         IF l = 1
                         THEN [member |-> TRUE, household_id |-> NoKey, turf_id |-> NoTurf]
                         ELSE NoMember]]
  /\ turfs = [t \in TurfIds |-> NoRow]
  /\ nextListId = 2
  /\ nextTurfId = 1
  /\ req = [op |-> "none", pc |-> "idle", seq |-> 0]
  /\ other = [op |-> "none", pc |-> "idle", seq |-> 0]
  /\ routeWrites = [t \in TurfIds |-> 0]
  /\ firstRoute = [t \in TurfIds |-> <<>>]

Tables == <<lists, list_voters, turfs, nextListId, nextTurfId>>
History == <<routeWrites, firstRoute>>

\* ----------------------------------------------------- POST /:id/household
Household(userId, id) ==
  /\ Quiet
  /\ IF lists[id] # userId
     THEN /\ req' = [op |-> "household", pc |-> "done", seq |-> req.seq + 1, userId |-> userId, id |-> id,
                     res |-> [status |-> 404, body |-> "List not found"]]
          /\ UNCHANGED list_voters
     ELSE /\ list_voters' =
               [list_voters EXCEPT ![id] =
                  [n \in NCIDs |->
                     IF list_voters[id][n].member
                     THEN [list_voters[id][n] EXCEPT !.household_id = HouseholdKey(n)]
                     ELSE list_voters[id][n]]]
          /\ req' = [op |-> "household", pc |-> "done", seq |-> req.seq + 1, userId |-> userId, id |-> id,
                     res |-> [status |-> 200, body |-> "success"]]
  /\ UNCHANGED <<voterTable, lists, turfs, nextListId, nextTurfId, History, pureVars, other>>

\* ----------------------------------------------------- POST /:id/duplicate
Duplicate(userId, id) ==
  /\ Quiet
  /\ IF lists[id] # userId
     THEN /\ req' = [op |-> "duplicate", pc |-> "done", seq |-> req.seq + 1, userId |-> userId, id |-> id,
                     res |-> [status |-> 404, body |-> "List not found"]]
          /\ UNCHANGED <<lists, list_voters, nextListId>>
     ELSE /\ nextListId <= MaxLists
          /\ lists' = [lists EXCEPT ![nextListId] = userId]
          /\ list_voters' = [list_voters EXCEPT ![nextListId] = list_voters[id]]
          /\ nextListId' = nextListId + 1
          /\ req' = [op |-> "duplicate", pc |-> "done", seq |-> req.seq + 1, userId |-> userId, id |-> id,
                     res |-> [status |-> 200, body |-> nextListId]]
  /\ UNCHANGED <<voterTable, turfs, nextTurfId, History, pureVars, other>>

\* ------------------------------------------------------ DELETE /lists/:id
\* ON DELETE CASCADE removes the membership records and the turfs of the list.
DeleteList(userId, id) ==
  /\ Quiet
  /\ IF lists[id] # userId
     THEN UNCHANGED <<lists, list_voters, turfs>>
     ELSE /\ lists' = [lists EXCEPT ![id] = NoUser]
          /\ list_voters' = [list_voters EXCEPT ![id] = [n \in NCIDs |-> NoMember]]
          /\ turfs' = [t \in TurfIds |->
                         IF turfs[t].exists /\ turfs[t].list_id = id THEN NoRow ELSE turfs[t]]
  /\ req' = [op |-> "deleteList", pc |-> "done", seq |-> req.seq + 1, userId |-> userId, id |-> id,
             res |-> [status |-> 200, body |-> "success"]]
  /\ UNCHANGED <<voterTable, nextListId, nextTurfId, History, pureVars, other>>

\* ------------------------------------------------------ DELETE /turfs/:id
\* "Clear turf assignments first"
DeleteTurfClear(userId, id) ==
  /\ Quiet
  /\ list_voters' = ClearTurf(id)
  /\ req' = [op |-> "deleteTurf", pc |-> "delete", seq |-> req.seq + 1,
             userId |-> userId, id |-> id, cleared |-> Carrying(id), res |-> NoRes]
  /\ UNCHANGED <<voterTable, lists, turfs, nextListId, nextTurfId, History, pureVars, other>>

\* DELETE FROM turfs WHERE id = $1 AND user_id = $2
DeleteTurfRow ==
  /\ req.op = "deleteTurf"
  /\ req.pc = "delete"
  /\ turfs' = IF turfs[req.id].exists /\ turfs[req.id].user_id = req.userId
              THEN [turfs EXCEPT ![req.id] = NoRow]
              ELSE turfs
  /\ req' = Done(req, 200, "success")
  /\ UNCHANGED <<voterTable, lists, list_voters, nextListId, nextTurfId, History, pureVars, other>>

\* ------------------------------------------------------------ GET /:id/route
\* Lines 505-516: the turf lookup and the cached route.
GetRouteBegin(userId, id) ==
  /\ Quiet
  /\ LET r == [op |-> "getRoute", pc |-> "addresses", seq |-> req.seq + 1, userId |-> userId, id |-> id,
               hit |-> FALSE, routeData |-> <<>>, res |-> NoRes]
     IN req' = IF ~(turfs[id].exists /\ turfs[id].user_id = userId)
               THEN Done(r, 404, "Turf not found")
               ELSE IF RouteCached(turfs[id])
               THEN Done([r EXCEPT !.hit = TRUE], 200, turfs[id].route_data[1])
               ELSE r
  /\ UNCHANGED <<voterTable, Tables, History, pureVars, other>>

\* Lines 518-556: the addresses query and the route computed from it.
GetRouteAddresses ==
  /\ req.op = "getRoute"
  /\ req.pc = "addresses"
  /\ LET addresses == Addresses(req.id)
         run == nearestNeighborRoute(addresses)
     IN req' = IF Len(addresses) = 0
               THEN Done(req, 200, [route |-> <<>>, distance |-> 0, duration |-> 0])
               ELSE IF run.hung
               THEN [req EXCEPT !.pc = "hung"]
               ELSE [req EXCEPT !.pc = "cache",
                                !.routeData = <<RouteData(addresses, run.route)>>]
  /\ UNCHANGED <<voterTable, Tables, History, pureVars, other>>

\* Lines 558-565: "Cache the route" and answer with it.
GetRouteCache ==
  /\ req.op = "getRoute"
  /\ req.pc = "cache"
  /\ IF turfs[req.id].exists
     THEN /\ turfs' = [turfs EXCEPT ![req.id].route_data = req.routeData]
          /\ routeWrites' = [routeWrites EXCEPT ![req.id] = IF @ < 2 THEN @ + 1 ELSE @]
          /\ firstRoute' = IF routeWrites[req.id] = 0
                           THEN [firstRoute EXCEPT ![req.id] = req.routeData]
                           ELSE firstRoute
     ELSE UNCHANGED <<turfs, History>>
  /\ req' = Done(req, 200, req.routeData[1])
  /\ UNCHANGED <<voterTable, lists, list_voters, nextListId, nextTurfId, pureVars, other>>

\* The ownership lookup without the user_id condition.
OwnsListAnyUser(userId, list_id) == lists[list_id] # NoUser

\* SELECT id, name FROM lists WHERE id = $1 AND user_id = $2
OwnsList(userId, list_id) == lists[list_id] = userId

\* ------------------------------------------------------------ POST /auto-cut
\* Lines 69-84: the body, the list_id check and the ownership lookup.
AutoCutBegin(userId, list_id, doors_per_turf, method) ==
  /\ Quiet
  /\ LET r == [op |-> "autoCut", pc |-> "load", seq |-> req.seq + 1, userId |-> userId, list_id |-> list_id,
               doors_per_turf |-> doors_per_turf, method |-> method,
               doorCount |-> 0, turfs |-> <<>>, i |-> 1, created |-> NoTurf,
               createdTurfs |-> <<>>, res |-> NoRes]
     IN req' = IF list_id = NoList
               THEN Done(r, 400, "list_id is required")
               ELSE IF ~OwnsList(userId, list_id)
               THEN Done(r, 404, "List not found")
               ELSE r
  /\ UNCHANGED <<voterTable, Tables, History, pureVars, other>>

\* Lines 86-133: the voters query, the households, numTurfs and, for the
\* methods cluster and grid, clusterDoors.
AutoCutLoad ==
  /\ req.op = "autoCut"
  /\ req.pc = "load"
  /\ LET voters == VoterRows(req.list_id)
         doors == Households(voters)
         numTurfs == Max(1, Ceil(Len(doors), req.doors_per_turf))
     IN IF Len(voters) = 0
        THEN req' = Done(req, 400, "No geocoded voters in this list")
        ELSE IF req.method = "precinct"
        THEN req' = [req EXCEPT !.pc = "precinct", !.doorCount = Len(doors)]
        ELSE \E seeds \in SeedOrders(Len(doors), numTurfs) :
               req' = [req EXCEPT !.pc = "insert", !.doorCount = Len(doors),
                                  !.turfs = clusterDoors(doors, numTurfs, seeds)]
  /\ UNCHANGED <<voterTable, Tables, History, pureVars, other>>

\* Lines 134-136: groupByPrecinct runs its own query.
AutoCutPrecinct ==
  /\ req.op = "autoCut"
  /\ req.pc = "precinct"
  /\ req' = [req EXCEPT !.pc = "insert", !.turfs = groupByPrecinct(req.list_id)]
  /\ UNCHANGED <<voterTable, Tables, History, pureVars, other>>

\* Lines 141-167: INSERT INTO turfs for turfs[i].
AutoCutInsert ==
  /\ req.op = "autoCut"
  /\ req.pc = "insert"
  /\ req.i <= Len(req.turfs)
  /\ nextTurfId <= MaxTurfs
  /\ LET turf == req.turfs[req.i]
     IN turfs' = [turfs EXCEPT ![nextTurfId] =
                    [exists |-> TRUE, user_id |-> req.userId, list_id |-> req.list_id,
                     name |-> req.i,
                     voter_count |-> Len(turf.ncids), door_count |-> Len(turf.doors),
                     estimated_time_minutes |-> Len(turf.doors) * 3,
                     center |-> turf.center, method |-> req.method,
                     route_data |-> <<>>]]
  /\ nextTurfId' = nextTurfId + 1
  /\ req' = [req EXCEPT !.pc = "assign", !.created = nextTurfId]
  /\ UNCHANGED <<voterTable, lists, list_voters, nextListId, History, pureVars, other>>

\* Lines 169-181: "Assign voters to turf" and createdTurfs.push.
AutoCutAssign ==
  /\ req.op = "autoCut"
  /\ req.pc = "assign"
  /\ LET turf == req.turfs[req.i]
     IN /\ list_voters' = IF Len(turf.ncids) > 0
                          THEN AssignTurf(req.list_id, turf.ncids, req.created)
                          ELSE list_voters
        /\ req' = [req EXCEPT !.pc = "insert", !.i = req.i + 1,
                              !.createdTurfs =
                                 Append(@, [id |-> req.created,
                                            voter_count |-> Len(turf.ncids),
                                            door_count |-> Len(turf.doors),
                                            center |-> turf.center])]
  /\ UNCHANGED <<voterTable, lists, turfs, nextListId, nextTurfId, History, pureVars, other>>

\* Lines 184-188: the loop is over.
AutoCutRespond ==
  /\ req.op = "autoCut"
  /\ req.pc = "insert"
  /\ req.i > Len(req.turfs)
  /\ req' = Done(req, 200, req.createdTurfs)
  /\ UNCHANGED <<voterTable, Tables, History, pureVars, other>>

\* Lines 190-193: a statement of the call throws; the catch block logs the
\* error and answers 500. CatchTurfs and CatchListVoters are the tables the
\* catch block leaves behind.
CatchTurfsRolledBack ==
  [t \in TurfIds |->
     IF t = req.created \/ (\E j \in 1..Len(req.createdTurfs) : req.createdTurfs[j].id = t)
     THEN NoRow
     ELSE turfs[t]]

CatchTurfs == turfs

CatchListVoters == list_voters

\* The voters query or the query of groupByPrecinct throws.
AutoCutQueryFails ==
  /\ req.op = "autoCut"
  /\ req.pc \in {"load", "precinct"}
  /\ turfs' = CatchTurfs
  /\ list_voters' = CatchListVoters
  /\ req' = Done(req, 500, "err.message")
  /\ UNCHANGED <<voterTable, lists, nextListId, nextTurfId, History, pureVars, other>>

\* The INSERT for turfs[i] throws.
AutoCutInsertFails ==
  /\ req.op = "autoCut"
  /\ req.pc = "insert"
  /\ req.i <= Len(req.turfs)
  /\ turfs' = CatchTurfs
  /\ list_voters' = CatchListVoters
  /\ req' = Done(req, 500, "err.message")
  /\ UNCHANGED <<voterTable, lists, nextListId, nextTurfId, History, pureVars, other>>

\* The UPDATE for turfs[i] throws.
AutoCutAssignFails ==
  /\ req.op = "autoCut"
  /\ req.pc = "assign"
  /\ Len(req.turfs[req.i].ncids) > 0
  /\ turfs' = CatchTurfs
  /\ list_voters' = CatchListVoters
  /\ req' = Done(req, 500, "err.message")
  /\ UNCHANGED <<voterTable, lists, nextListId, nextTurfId, History, pureVars, other>>

\* -------------------------------------------------------------- POST /manual
\* Lines 323-339: the body, the polygon format and the ownership lookup.
ManualBegin(userId, list_id, polygon) ==
  /\ Quiet
  /\ LET r == [op |-> "createManual", pc |-> "find", seq |-> req.seq + 1, userId |-> userId,
               list_id |-> list_id, polygon |-> polygon, ncids |-> <<>>,
               doorCount |-> 0, created |-> NoTurf, res |-> NoRes]
     IN req' = IF list_id = NoList \/ polygon = NoPolygon
               THEN Done(r, 400, "list_id and polygon are required")
               ELSE IF ~PolygonFormatOk(polygon)
               THEN Done(r, 400, "Invalid polygon format")
               ELSE IF ~OwnsList(userId, list_id)
               THEN Done(r, 404, "List not found")
               ELSE r
  /\ UNCHANGED <<voterTable, Tables, History, pureVars, other>>

\* Lines 341-365: votersInPolygon, uniqueHouseholds and the centroid.
ManualFind ==
  /\ req.op = "createManual"
  /\ req.pc = "find"
  /\ LET votersInPolygon == VotersInPolygon(req.list_id, req.polygon)
     IN req' = IF Len(votersInPolygon) = 0
               THEN Done(req, 400, "No voters found within the specified polygon")
               ELSE [req EXCEPT !.pc = "insert",
                                !.ncids = [i \in 1..Len(votersInPolygon) |->
                                             votersInPolygon[i].ncid],
                                !.doorCount = Cardinality(UniqueHouseholds(votersInPolygon))]
  /\ UNCHANGED <<voterTable, Tables, History, pureVars, other>>

\* Lines 367-395: INSERT INTO turfs.
ManualInsert ==
  /\ req.op = "createManual"
  /\ req.pc = "insert"
  /\ nextTurfId <= MaxTurfs
  /\ turfs' = [turfs EXCEPT ![nextTurfId] =
                 [exists |-> TRUE, user_id |-> req.userId, list_id |-> req.list_id,
                  name |-> 0,
                  voter_count |-> Len(req.ncids), door_count |-> req.doorCount,
                  estimated_time_minutes |-> req.doorCount * 3,
                  center |-> ST_Centroid(req.polygon), method |-> "manual",
                  route_data |-> <<>>]]
  /\ nextTurfId' = nextTurfId + 1
  /\ req' = [req EXCEPT !.pc = "assign", !.created = nextTurfId]
  /\ UNCHANGED <<voterTable, lists, list_voters, nextListId, History, pureVars, other>>

\* Lines 397-408: "Assign voters to turf" and the response.
ManualAssign ==
  /\ req.op = "createManual"
  /\ req.pc = "assign"
  /\ list_voters' = AssignTurf(req.list_id, req.ncids, req.created)
  /\ req' = Done(req, 200, [id |-> req.created, voter_count |-> Len(req.ncids),
                            door_count |-> req.doorCount,
                            center |-> ST_Centroid(req.polygon)])
  /\ UNCHANGED <<voterTable, lists, turfs, nextListId, nextTurfId, History, pureVars, other>>

\* ------------------------------------------------------------ specification
Next ==
  \/ \E u \in Users, l \in ListIds : Household(u, l)
  \/ \E u \in Users, l \in ListIds : Duplicate(u, l)
  \/ \E u \in Users, l \in ListIds : DeleteList(u, l)
  \/ \E u \in Users, t \in TurfIds : DeleteTurfClear(u, t)
  \/ DeleteTurfRow
  \/ \E u \in Users, t \in TurfIds : GetRouteBegin(u, t)
  \/ GetRouteAddresses
  \/ GetRouteCache
  \/ \E u \in Users, l \in {NoList} \cup ListIds, d \in DoorsPerTurf, m \in Methods :
       AutoCutBegin(u, l, d, m)
  \/ AutoCutLoad
  \/ AutoCutPrecinct
  \/ AutoCutInsert
  \/ AutoCutAssign
  \/ AutoCutRespond
  \/ \E u \in Users, l \in {NoList} \cup ListIds, p \in Polygons : ManualBegin(u, l, p)
  \/ ManualFind
  \/ ManualInsert
  \/ ManualAssign

Spec == Init /\ [][Next]_vars

\* The server with two autoCut calls on list 1 at a time. The handlers are
\* async functions: at every await the event loop can go on with the other
\* request, and no statement of autoCut takes a lock or opens a transaction.
\* The list is as POST /lists created it or as POST /lists/:id/household
\* left it; each of the two requests is the last one the model follows.
InitRace ==
  /\ cluster = ClusterIdle
  /\ nn = NNIdle
  /\ agg = AggIdle
  /\ \E geocoded \in SUBSET NCIDs, householded \in BOOLEAN, precincts \in PrecinctTables :
       /\ voterTable = [n \in NCIDs |-> VoterRow(n, geocoded, precincts)]
       /\ list_voters = [l \in ListIds |->
                           [n \in NCIDs |->
                              IF l = 1
                              THEN [member |-> TRUE,
                                    household_id |-> IF householded THEN AddressOf(n) ELSE NoKey,
                                    turf_id |-> NoTurf]
                              ELSE NoMember]]
  /\ lists = [l \in ListIds |-> IF l = 1 THEN 1 ELSE NoUser]
  /\ turfs = [t \in TurfIds |-> NoRow]
  /\ nextListId = 2
  /\ nextTurfId = 1
  /\ req = [op |-> "none", pc |-> "idle", seq |-> MaxRequests - 1]
  /\ other = [op |-> "none", pc |-> "idle", seq |-> MaxRequests - 1]
  /\ routeWrites = [t \in TurfIds |-> 0]
  /\ firstRoute = [t \in TurfIds |-> <<>>]

\* The event loop goes on with the other request.
Switch ==
  /\ req' = other
  /\ other' = req
  /\ UNCHANGED <<voterTable, Tables, History, pureVars>>

NextRace ==
  \/ \E u \in Users, d \in DoorsPerTurf, m \in Methods : AutoCutBegin(u, 1, d, m)
  \/ AutoCutLoad
  \/ AutoCutPrecinct
  \/ AutoCutInsert
  \/ AutoCutAssign
  \/ AutoCutRespond
  \/ Switch

SpecRace == InitRace /\ [][NextRace]_vars

\* The server with a getRoute call next to an autoCut call on list 1: the
\* first request can be followed by one more, the second is the last one.
InitRouteRace ==
  /\ cluster = ClusterIdle
  /\ nn = NNIdle
  /\ agg = AggIdle
  /\ \E geocoded \in SUBSET NCIDs, householded \in BOOLEAN, precincts \in PrecinctTables :
       /\ voterTable = [n \in NCIDs |-> VoterRow(n, geocoded, precincts)]
       /\ list_voters = [l \in ListIds |->
                           [n \in NCIDs |->
                              IF l = 1
                              THEN [member |-> TRUE,
                                    household_id |-> IF householded THEN AddressOf(n) ELSE NoKey,
                                    turf_id |-> NoTurf]
                              ELSE NoMember]]
  /\ lists = [l \in ListIds |-> IF l = 1 THEN 1 ELSE NoUser]
  /\ turfs = [t \in TurfIds |-> NoRow]
  /\ nextListId = 2
  /\ nextTurfId = 1
  /\ req = [op |-> "none", pc |-> "idle", seq |-> MaxRequests - 2]
  /\ other = [op |-> "none", pc |-> "idle", seq |-> MaxRequests - 1]
  /\ routeWrites = [t \in TurfIds |-> 0]
  /\ firstRoute = [t \in TurfIds |-> <<>>]

NextRouteRace ==
  \/ \E u \in Users, d \in DoorsPerTurf, m \in Methods : AutoCutBegin(u, 1, d, m)
  \/ AutoCutLoad
  \/ AutoCutPrecinct
  \/ AutoCutInsert
  \/ AutoCutAssign
  \/ AutoCutRespond
  \/ \E u \in Users, t \in TurfIds : GetRouteBegin(u, t)
  \/ GetRouteAddresses
  \/ GetRouteCache
  \/ Switch

SpecRouteRace == InitRouteRace /\ [][NextRouteRace]_vars

\* The server with statements of autoCut that can fail: the calls that
\* prepare a list and cut it, each statement of autoCut either done or
\* thrown.
NextFail ==
  \/ \E u \in Users, l \in ListIds : Household(u, l)
  \/ \E u \in Users, l \in {NoList} \cup ListIds, d \in DoorsPerTurf, m \in Methods :
       AutoCutBegin(u, l, d, m)
  \/ AutoCutLoad
  \/ AutoCutPrecinct
  \/ AutoCutInsert
  \/ AutoCutAssign
  \/ AutoCutRespond
  \/ AutoCutQueryFails
  \/ AutoCutInsertFails
  \/ AutoCutAssignFails

SpecFail == Init /\ [][NextFail]_vars

\* ------------------------------------------------- claims on clusterDoors
ClusterDone == cluster.pc = "done"

\* The places (cluster, position) of the returned groups.
ResultPlaces ==
  {p \in (1..Len(cluster.result)) \X (1..MaxDoors) : p[2] <= Len(cluster.result[p[1]].doors)}

\* C1: for a non-empty household list and every k >= 1 the groups returned
\* by clusterDoors partition the list: every household is in exactly one
\* returned cluster, no returned cluster is empty, and every member of a
\* cluster is a household of the list.
C1_Partition ==
  (ClusterDone /\ Len(cluster.doors) > 0) =>
    /\ \A c \in 1..Len(cluster.result) : Len(cluster.result[c].doors) > 0
    /\ \A i \in 1..Len(cluster.doors) :
         Cardinality({p \in ResultPlaces : cluster.result[p[1]].doors[p[2]].id = i}) = 1
    /\ \A p \in ResultPlaces :
         \E i \in 1..Len(cluster.doors) : cluster.result[p[1]].doors[p[2]] = cluster.doors[i]

\* A k-means run (k < |H|) whose final pass left a cluster empty, so that
\* fewer than k groups are returned.
C1_Witness ==
  /\ ClusterDone
  /\ cluster.k < Len(cluster.doors)
  /\ Len(cluster.result) < cluster.k
  /\ Len(cluster.result) >= 2

\* C7: for a k-means run (k < |H|) the center reported for a returned
\* cluster is the final centroid its member households were assigned to in
\* the final assignment pass.
C7_CenterIsAssignedCentroid ==
  (ClusterDone /\ cluster.k < Len(cluster.doors)) =>
    \A p \in ResultPlaces :
      cluster.result[p[1]].center =
        cluster.centroids[Nearest(cluster.result[p[1]].doors[p[2]], cluster.centroids)]

\* C8: for k >= |H| clusterDoors returns |H| clusters, the i-th holding
\* exactly household i, its voter ids and its own coordinates as center.
C8_Singletons ==
  (ClusterDone /\ cluster.k >= Len(cluster.doors)) =>
    /\ Len(cluster.result) = Len(cluster.doors)
    /\ \A i \in 1..Len(cluster.doors) :
         /\ cluster.result[i].doors = <<cluster.doors[i]>>
         /\ cluster.result[i].ncids = cluster.doors[i].ncids
         /\ cluster.result[i].center.lat = cluster.doors[i].lat
         /\ cluster.result[i].center.lng = cluster.doors[i].lng

\* Three households, two at different coordinates, asked for k = 3.
C8_Witness ==
  /\ ClusterDone
  /\ Len(cluster.doors) = 3
  /\ cluster.k = 3
  /\ Len(cluster.result) = 3
  /\ cluster.doors[1].lat # cluster.doors[1].lng
  /\ cluster.doors[1].lat # NaN

\* The arithmetic mean of the coordinates of all households of the call.
MeanOfDoors ==
  [lat |-> Div(SumLat(cluster.doors, Len(cluster.doors)), Len(cluster.doors)),
   lng |-> Div(SumLng(cluster.doors, Len(cluster.doors)), Len(cluster.doors))]

\* C9 as stated: for every household list and k = 1, clusterDoors returns
\* exactly one cluster that contains all households, with the mean of all
\* coordinates as center.
C9_OneClusterAnyList ==
  (ClusterDone /\ cluster.k = 1) =>
    /\ Len(cluster.result) = 1
    /\ cluster.result[1].doors = cluster.doors
    /\ cluster.result[1].center = MeanOfDoors

\* C9 amended: for every non-empty household list and k = 1, clusterDoors
\* returns exactly one cluster that contains all households, with the mean
\* of all coordinates as center.
C9_OneClusterNonEmpty ==
  (ClusterDone /\ cluster.k = 1 /\ Len(cluster.doors) >= 1) =>
    /\ Len(cluster.result) = 1
    /\ cluster.result[1].doors = cluster.doors
    /\ cluster.result[1].center = MeanOfDoors

\* k = 1 on three households whose mean is none of their coordinates.
C9_Witness ==
  /\ ClusterDone
  /\ cluster.k = 1
  /\ Len(cluster.doors) = 3
  /\ Len(cluster.result) = 1
  /\ MeanOfDoors.lat # NaN
  /\ \A i \in 1..3 : cluster.doors[i].lat # MeanOfDoors.lat

\* ------------------------------------------ claims on nearestNeighborRoute
\* The places of the route are pairwise different places of the argument.
RouteVisitsOnce ==
  /\ \A i \in 1..Len(nn.route) : nn.route[i] \in 1..Len(nn.points)
  /\ \A i, j \in 1..Len(nn.route) : i # j => nn.route[i] # nn.route[j]

\* C4: nearestNeighborRoute never puts a household on the route twice, and
\* the route it returns is a permutation of its argument: every household
\* of the argument is on it exactly once.
C4_RouteIsPermutation ==
  (nn.pc \in {"loop", "done"}) =>
    /\ RouteVisitsOnce
    /\ nn.pc = "done" =>
         /\ Len(nn.route) = Len(nn.points)
         /\ \A p \in 1..Len(nn.points) : \E i \in 1..Len(nn.route) : nn.route[i] = p

\* A returned route of three households that is not in the input order.
C4_Witness ==
  /\ nn.pc = "done"
  /\ Len(nn.points) = 3
  /\ nn.route = <<1, 3, 2>>

\* C5: every pass of the while loop moves exactly one household from the
\* unvisited set to the route, whatever the distances are, so that after p
\* passes n - 1 - p households are unvisited and the loop ends after n - 1
\* passes.
C5_EveryPassMovesOne ==
  (nn.pc = "loop") =>
    /\ Len(nn.remaining) = Len(nn.points) - 1 - nn.passes
    /\ Len(nn.route) = 1 + nn.passes

\* ------------------------------------------ claims on the household aggregation
\* The places of the loaded rows that carry this household key.
RowsOfKey(key) == {i \in 1..Len(agg.voters) : agg.voters[i].household_id = key}

FirstRowOfKey(key) == CHOOSE i \in RowsOfKey(key) : \A j \in RowsOfKey(key) : i <= j

\* C10: the aggregation yields exactly one household per distinct non-null
\* household key of the loaded voters; a household has the lat/lng of the
\* first voter seen with its key, and its voter id list holds every voter
\* with that key exactly once, no other voter, and is never empty.
C10_OneHouseholdPerKey ==
  (agg.pc = "done") =>
    /\ \A key \in 1..MaxKeys :
         Cardinality({d \in 1..Len(agg.doors) : agg.doors[d].id = key}) =
           (IF RowsOfKey(key) = {} THEN 0 ELSE 1)
    /\ \A d \in 1..Len(agg.doors) :
         LET door == agg.doors[d]
         IN /\ door.id \in 1..MaxKeys
            /\ RowsOfKey(door.id) # {}
            /\ door.lat = agg.voters[FirstRowOfKey(door.id)].lat
            /\ door.lng = agg.voters[FirstRowOfKey(door.id)].lng
            /\ Len(door.ncids) >= 1
            /\ Len(door.ncids) = Cardinality(RowsOfKey(door.id))
            /\ \A i \in RowsOfKey(door.id) :
                 Cardinality({m \in 1..Len(door.ncids) : door.ncids[m] = agg.voters[i].ncid}) = 1

\* Three rows: two voters of one household at different locations, one voter
\* without a household key.
C10_Witness ==
  /\ agg.pc = "done"
  /\ Len(agg.voters) = 3
  /\ Len(agg.doors) = 1
  /\ Len(agg.doors[1].ncids) = 2
  /\ \E i, j \in RowsOfKey(agg.doors[1].id) : agg.voters[i].lat # agg.voters[j].lat

\* ---------------------------------------------------- claims on the server
\* C2: every turf row that autoCut persists, whichever method is used
\* (cluster, grid or precinct), has door_count >= 1 and voter_count >= 1.
C2_NoEmptyAutoCutTurf ==
  \A t \in 1..Len(turfs) :
    (turfs[t].exists /\ turfs[t].method \in Methods) =>
      (turfs[t].door_count >= 1 /\ turfs[t].voter_count >= 1)

\* C3: after deleteTurf(t) completes no membership record of any list
\* carries turf id t, and a step of deleteTurf(t) that removes the turf row
\* starts in a state where no membership record carries t any more.
C3_ClearedBeforeRemoved ==
  /\ []((req.op = "deleteTurf" /\ req.pc = "done") => Carrying(req.id) = {})
  /\ [][\A t \in 1..Len(turfs) :
          (req.op = "deleteTurf" /\ req.pc = "delete" /\ turfs[t].exists /\ ~turfs'[t].exists) =>
            (req.id = t /\ Carrying(t) = {})]_vars

\* A deleteTurf that completed, removed the row and had cleared membership
\* records of two lists (the list the turf was cut from and its duplicate).
C3_Witness ==
  /\ req.op = "deleteTurf"
  /\ req.pc = "done"
  /\ ~turfs[req.id].exists
  /\ \E a, b \in req.cleared : a[1] # b[1]
  /\ Carrying(req.id) = {}

\* C6: once getRoute(t) has written a route onto turf t, the route is never
\* computed or written again, the turf keeps it, and every later getRoute(t)
\* that finds the turf returns exactly that route.
C6_CachedRouteReturned ==
  /\ \A t \in 1..Len(turfs) :
       /\ routeWrites[t] <= 1
       /\ (turfs[t].exists /\ routeWrites[t] >= 1) => turfs[t].route_data = firstRoute[t]
  /\ (req.op = "getRoute" /\ req.pc \in {"addresses", "cache"}) => routeWrites[req.id] = 0
  /\ (req.op = "getRoute" /\ req.pc = "done" /\ req.res.status = 200
        /\ routeWrites[req.id] >= 1) =>
       req.res.body = firstRoute[req.id][1]

\* The households on the stored route of the turf, and those its members
\* have now.
StoredStops(id) ==
  {turfs[id].route_data[1].route[i].household_id :
     i \in 1..Len(turfs[id].route_data[1].route)}

CurrentStops(id) == {Addresses(id)[i].household_id : i \in 1..Len(Addresses(id))}

\* A getRoute answered from the cache with the stops of the stored route
\* although no membership record carries the turf any more: its voters
\* were assigned to another turf after the route was written.
C6_Witness ==
  /\ req.op = "getRoute"
  /\ req.pc = "done"
  /\ req.hit
  /\ req.res.body = firstRoute[req.id][1]
  /\ StoredStops(req.id) # {}
  /\ Carrying(req.id) = {}
  /\ CurrentStops(req.id) = {}
  /\ \E t \in 1..Len(turfs) : t # req.id /\ turfs[t].exists /\ Carrying(t) # {}

\* C11: a voter whose membership record has no household key is never
\* assigned to a turf by autoCut: no step of an autoCut call changes the turf
\* id of a record without household key.
C11_KeylessNeverAssigned ==
  [][(req.op = "autoCut" /\ req.pc \in {"load", "precinct", "insert", "assign"}) =>
       \A n \in 1..MaxVoters :
         (list_voters[req.list_id][n].member
            /\ list_voters[req.list_id][n].household_id = NoKey) =>
           list_voters'[req.list_id][n].turf_id = list_voters[req.list_id][n].turf_id]_vars

\* The members of a list whose record carries the turf id, and their
\* household keys.
MembersOf(list_id, id) ==
  {n \in NCIDs : list_voters[list_id][n].member /\ list_voters[list_id][n].turf_id = id}

KeysOf(list_id, id) ==
  {list_voters[list_id][n].household_id : n \in MembersOf(list_id, id)} \ {NoKey}

\* C12: when autoCut answers, it has created one turf per group; the turf's
\* voter_count is the number of distinct voters of the group, its door_count
\* the number of households of the group, its estimated_time_minutes three
\* times the door_count, and the membership records of the list that carry
\* the turf's id are exactly the records of the group's voters.
C12_TurfMatchesGroup ==
  (req.op = "autoCut" /\ req.pc = "done" /\ req.res.status = 200) =>
    /\ Len(req.createdTurfs) = Len(req.turfs)
    /\ \A i \in 1..Len(req.createdTurfs) :
         LET id == req.createdTurfs[i].id
             group == req.turfs[i]
             voters == {group.ncids[j] : j \in 1..Len(group.ncids)}
         IN /\ turfs[id].exists
            /\ turfs[id].voter_count = Cardinality(voters)
            /\ turfs[id].door_count = Len(group.doors)
            /\ turfs[id].door_count = Cardinality(KeysOf(req.list_id, id))
            /\ turfs[id].estimated_time_minutes = 3 * turfs[id].door_count
            /\ MembersOf(req.list_id, id) = voters

C12_Witness ==
  /\ req.op = "autoCut" /\ req.pc = "done" /\ req.res.status = 200
  /\ Len(req.createdTurfs) = 2
  /\ \E i \in 1..2 :
       /\ turfs[req.createdTurfs[i].id].voter_count = 2
       /\ turfs[req.createdTurfs[i].id].door_count = 1
       /\ Cardinality(MembersOf(req.list_id, req.createdTurfs[i].id)) = 2

\* C13: a createManual request whose polygon is not of type 'Polygon' or has
\* no coordinates is answered at once with a 400 validation error, and the
\* step that serves it creates no turf and changes no membership record;
\* such a request never gets to the statements behind the validation.
C13_BadPolygonRejected ==
  /\ []((req.op = "createManual"
           /\ (req.polygon.type # "Polygon" \/ ~req.polygon.coordinates)) =>
          /\ req.pc = "done"
          /\ req.res.status = 400
          /\ req.res.body \in {"list_id and polygon are required", "Invalid polygon format"})
  /\ [][(req'.op = "createManual" /\ req'.seq = req.seq + 1
           /\ (req'.polygon.type # "Polygon" \/ ~req'.polygon.coordinates)) =>
          /\ req'.pc = "done"
          /\ UNCHANGED <<turfs, list_voters, nextTurfId>>]_vars

\* A Polygon without coordinates sent by the owner of a list that has a
\* geocoded voter is answered with the format error.
C13_Witness ==
  /\ req.op = "createManual" /\ req.pc = "done"
  /\ req.polygon.type = "Polygon" /\ ~req.polygon.coordinates
  /\ req.list_id # NoList /\ lists[req.list_id] = req.userId
  /\ \E n \in NCIDs : list_voters[req.list_id][n].member /\ voterTable[n].located
  /\ req.res.status = 400 /\ req.res.body = "Invalid polygon format"

\* The geocoded members of the list that lie inside the rectangle.
Inside(list_id, polygon) ==
  {n \in NCIDs : /\ list_voters[list_id][n].member
                 /\ voterTable[n].located
                 /\ polygon.latMin < voterTable[n].lat /\ voterTable[n].lat < polygon.latMax
                 /\ polygon.lngMin < voterTable[n].lng /\ voterTable[n].lng < polygon.lngMax}

\* C14: a createManual request with a well-formed polygon that contains no
\* voter of the list is answered with 'No voters found within the specified
\* polygon', which is not the answer to a malformed polygon, and creates no
\* turf and changes no membership record; a turf that createManual creates
\* has at least one voter, and when the call answers exactly its voters carry
\* the turf's id.
C14_EmptyPolygonNoTurf ==
  /\ [](/\ \A t \in TurfIds :
             (turfs[t].exists /\ turfs[t].method = "manual") => turfs[t].voter_count >= 1
        /\ (req.op = "createManual" /\ req.pc \in {"insert", "assign"}) =>
             Inside(req.list_id, req.polygon) # {}
        /\ (req.op = "createManual" /\ req.pc = "done" /\ req.res.status = 200) =>
             /\ Inside(req.list_id, req.polygon) # {}
             /\ MembersOf(req.list_id, req.created) = Inside(req.list_id, req.polygon)
             /\ turfs[req.created].voter_count = Cardinality(Inside(req.list_id, req.polygon)))
  /\ [][(req.op = "createManual" /\ req.pc = "find"
           /\ Inside(req.list_id, req.polygon) = {}) =>
          /\ req'.pc = "done"
          /\ req'.res = [status |-> 400, body |-> "No voters found within the specified polygon"]
          /\ req'.res.body \notin {"list_id and polygon are required", "Invalid polygon format"}
          /\ UNCHANGED <<turfs, list_voters, nextTurfId>>]_vars

\* The owner's rectangle misses every voter of a list that has geocoded
\* voters.
C14_Witness ==
  /\ req.op = "createManual" /\ req.pc = "done"
  /\ PolygonFormatOk(req.polygon)
  /\ req.list_id # NoList /\ lists[req.list_id] = req.userId
  /\ \E n \in NCIDs : list_voters[req.list_id][n].member /\ voterTable[n].located
  /\ Inside(req.list_id, req.polygon) = {}
  /\ req.res.body = "No voters found within the specified polygon"

\* C15: an autoCut call on a list without geocoded voters, or whose
\* geocoded voters make up no household, creates no turf and changes no
\* membership record at any of its steps, and its answer is not the answer
\* to a missing list id.
C15_NoHouseholdsNoTurf ==
  /\ []((req.op = "autoCut" /\ req.pc = "done" /\ req.list_id # NoList
           /\ lists[req.list_id] = req.userId
           /\ Len(Households(VoterRows(req.list_id))) = 0) =>
          req.res # [status |-> 400, body |-> "list_id is required"])
  /\ [][(req.op = "autoCut" /\ req.pc \in {"load", "precinct", "insert", "assign"}
           /\ Len(Households(VoterRows(req.list_id))) = 0) =>
          UNCHANGED <<turfs, list_voters, nextTurfId>>]_vars

\* C16: an autoCut or createManual request without list id, or with a list
\* id that is not a list of the caller, is answered with an error by the step
\* that receives it, and that step leaves the turfs and the membership
\* records as they are; only requests for a list of the caller get further.
C16_ForeignListRejected ==
  /\ []((req.op \in {"autoCut", "createManual"} /\ req.pc # "done") =>
          (req.list_id # NoList /\ lists[req.list_id] = req.userId))
  /\ [][(req'.op \in {"autoCut", "createManual"} /\ req'.seq = req.seq + 1
           /\ (req'.list_id = NoList \/ lists[req'.list_id] # req'.userId)) =>
          /\ req'.pc = "done"
          /\ req'.res.status \in {400, 404}
          /\ UNCHANGED <<turfs, list_voters, nextTurfId, lists>>]_vars

\* Another user's list with geocoded voters: 404.
C16_Witness ==
  /\ req.op = "autoCut" /\ req.pc = "done"
  /\ req.list_id # NoList
  /\ lists[req.list_id] \notin {NoUser, req.userId}
  /\ \E n \in NCIDs : list_voters[req.list_id][n].member /\ voterTable[n].located
  /\ req.res = [status |-> 404, body |-> "List not found"]

\* The turf ids of the groups the call has finished.
CreatedIds == {req.createdTurfs[j].id : j \in 1..Len(req.createdTurfs)}

\* C17: when the INSERT of the i-th turf or the UPDATE after it fails, the
\* call answers with an error; the step that fails creates and removes
\* nothing, the turfs of the groups 1..i-1 are in the store with their
\* voters assigned to them, and the turfs of the call are those and, when
\* the UPDATE failed, the i-th: none for a group after i.
C17_NoRollback ==
  /\ []((req.op = "autoCut" /\ req.pc = "done" /\ req.res.status = 500
           /\ Len(req.turfs) > 0) =>
          /\ Len(req.createdTurfs) = req.i - 1
          /\ req.i <= Len(req.turfs)
          /\ \A j \in 1..(req.i - 1) :
               LET id == req.createdTurfs[j].id
               IN /\ turfs[id].exists
                  /\ turfs[id].name = j
                  /\ turfs[id].list_id = req.list_id
                  /\ MembersOf(req.list_id, id) =
                       {req.turfs[j].ncids[k] : k \in 1..Len(req.turfs[j].ncids)}
          /\ (req.created \notin CreatedIds \cup {NoTurf}) =>
               /\ turfs[req.created].exists
               /\ turfs[req.created].name = req.i
               /\ MembersOf(req.list_id, req.created) = {}
          /\ \A t \in TurfIds :
               (t >= nextTurfId - Len(req.createdTurfs) /\ t < nextTurfId /\ turfs[t].exists) =>
                 turfs[t].name <= req.i)
  /\ [][(req.op = "autoCut" /\ req.pc \in {"insert", "assign"}
           /\ req'.pc = "done" /\ req'.res.status # 200) =>
          /\ req'.res.status = 500
          /\ UNCHANGED <<turfs, list_voters, nextTurfId>>]_vars

\* The INSERT or UPDATE of the second group fails after the first group's
\* turf has been created with two voters.
C17_Witness ==
  /\ req.op = "autoCut" /\ req.pc = "done" /\ req.res.status = 500
  /\ req.i = 2 /\ Len(req.turfs) >= 2
  /\ Len(req.createdTurfs) = 1
  /\ Cardinality(MembersOf(req.list_id, req.createdTurfs[1].id)) = 2

\* The members of the list that are geocoded and have a household key.
KeyedGeocoded(list_id) ==
  {n \in NCIDs : /\ list_voters[list_id][n].member
                 /\ voterTable[n].located
                 /\ list_voters[list_id][n].household_id # NoKey}

\* C18: the groups groupByPrecinct has returned to autoCut are one group
\* per precinct of the list's geocoded members with a household key; every
\* voter of a group is such a member, and a precinct without such a member
\* has no group.
C18_GroupsOfKeyedMembers ==
  (req.op = "autoCut" /\ req.method = "precinct" /\ req.pc \in {"insert", "assign"}) =>
    /\ \A i \in 1..Len(req.turfs) :
         \A k \in 1..Len(req.turfs[i].ncids) :
           /\ req.turfs[i].ncids[k] \in KeyedGeocoded(req.list_id)
           /\ voterTable[req.turfs[i].ncids[k]].precinct_name = req.turfs[i].name
    /\ {req.turfs[i].name : i \in 1..Len(req.turfs)} =
         {voterTable[n].precinct_name : n \in KeyedGeocoded(req.list_id)}
    /\ \A i, j \in 1..Len(req.turfs) : req.turfs[i].name = req.turfs[j].name => i = j

\* The household keys among the doors of the groups of a call, the position
\* of the group that holds a key, and the turf ids the geocoded voters of a
\* household carry.
DoorKeys(r) ==
  UNION {{r.turfs[i].doors[d].id : d \in 1..Len(r.turfs[i].doors)} : i \in 1..Len(r.turfs)}

GroupsOf(r, h) ==
  {i \in 1..Len(r.turfs) : \E d \in 1..Len(r.turfs[i].doors) : r.turfs[i].doors[d].id = h}

TurfsOf(r, h) == {r.createdTurfs[i].id : i \in GroupsOf(r, h)}

VotersOf(list_id, h) ==
  {n \in KeyedGeocoded(list_id) : list_voters[list_id][n].household_id = h}

TurfIdsOf(list_id, h) ==
  {list_voters[list_id][n].turf_id :
     n \in {m \in KeyedGeocoded(list_id) : list_voters[list_id][m].household_id = h}}

BothAnswered ==
  /\ req.op = "autoCut" /\ req.pc = "done" /\ req.res.status = 200
  /\ other.op = "autoCut" /\ other.pc = "done" /\ other.res.status = 200
  /\ req.list_id = other.list_id

\* C19: when two autoCut calls on one list have answered, however their
\* statements were interleaved, every household that both calls cut is
\* counted in the door_count of a turf of each call, the turfs of the two
\* calls are different rows, and the membership record of each of the
\* household's voters carries the id of one of these turfs; when the
\* household's voters are registered in one precinct, all their records
\* carry the same id.
C19_CountedTwiceAssignedOnce ==
  BothAnswered =>
    \A h \in DoorKeys(req) \cap DoorKeys(other) :
      /\ \A i \in GroupsOf(req, h) :
           \A j \in GroupsOf(other, h) :
             LET a == req.createdTurfs[i].id
                 b == other.createdTurfs[j].id
             IN /\ a # b
                /\ turfs[a].exists /\ turfs[b].exists
                /\ turfs[a].door_count = Len(req.turfs[i].doors)
                /\ turfs[b].door_count = Len(other.turfs[j].doors)
      /\ \A n \in VotersOf(req.list_id, h) :
           list_voters[req.list_id][n].turf_id \in TurfsOf(req, h) \cup TurfsOf(other, h)
      /\ Cardinality({voterTable[n].precinct_name : n \in VotersOf(req.list_id, h)}) = 1 =>
           Cardinality(TurfIdsOf(req.list_id, h)) = 1

\* Both calls have answered, a household is counted by a turf of each, and
\* the records of the list point at turfs of both calls, which only an
\* interleaving of their statements brings about.
C19_Witness ==
  /\ BothAnswered
  /\ DoorKeys(req) \cap DoorKeys(other) # {}
  /\ \E n \in NCIDs : list_voters[req.list_id][n].turf_id \in CreatedIds
  /\ \E n \in NCIDs :
       \E j \in 1..Len(other.createdTurfs) :
         list_voters[req.list_id][n].turf_id = other.createdTurfs[j].id

\* The distance between two places of the argument, and the places that
\* are not among the first k stops of the route.
StopDistance(p, q) ==
  haversineDistance(nn.points[p].lat, nn.points[p].lng, nn.points[q].lat, nn.points[q].lng)

UnvisitedAfter(k) == (1..Len(nn.points)) \ {nn.route[m] : m \in 1..k}

\* The household at the start and those 100 m and 300 m from it.
AtStart == [lat |-> Den, lng |-> Den]
At100 == [lat |-> Den + HundredMetres, lng |-> Den]
At300 == [lat |-> Den + 3 * HundredMetres, lng |-> Den]

\* C20: the route starts with the first household of the argument, and
\* every later stop is a household that no household unvisited at that step
\* is nearer to the preceding stop than; for the households at 0 m, 100 m
\* and 300 m, the one at 0 m first in the argument, the returned route is
\* 0 m, 100 m, 300 m and its length rounds to 300 m.
C20_NearestUnvisitedNext ==
  /\ (nn.pc \in {"loop", "done"} /\ Len(nn.points) >= 1) =>
       /\ Len(nn.route) >= 1
       /\ nn.route[1] = 1
       /\ \A k \in 2..Len(nn.route) :
            /\ nn.route[k] \in UnvisitedAfter(k - 1)
            /\ StopDistance(nn.route[k - 1], nn.route[k]) # NaN
            /\ \A q \in UnvisitedAfter(k - 1) :
                 ~Lt(StopDistance(nn.route[k - 1], q),
                     StopDistance(nn.route[k - 1], nn.route[k]))
  /\ (nn.pc = "done" /\ Len(nn.points) = 3 /\ nn.points[1] = AtStart
        /\ {nn.points[2], nn.points[3]} = {At100, At300}) =>
       /\ [k \in 1..3 |-> nn.points[nn.route[k]]] = <<AtStart, At100, At300>>
       /\ (TotalDistance(nn.points, nn.route, 2) + 50) \div 100 = 300

\* The household at 300 m comes before the one at 100 m in the argument.
C20_Witness ==
  /\ nn.pc = "done"
  /\ nn.points = <<AtStart, At300, At100>>
  /\ nn.route = <<1, 3, 2>>
  /\ TotalDistance(nn.points, nn.route, 2) \div 100 = 300

\* The leg from stop j to stop j + 1 of a route, and the sum of the legs
\* before stop i, in centimetres.
LegCm(stops, j) ==
  DistanceCm(haversineDistance(stops[j].lat, stops[j].lng, stops[j + 1].lat, stops[j + 1].lng))

RECURSIVE LegsCm(_, _)
LegsCm(stops, i) == IF i <= 1 THEN 0 ELSE LegsCm(stops, i - 1) + LegCm(stops, i - 1)

\* C21: the route data getRoute computes numbers its n stops 1..n in the
\* order of the visit; its distance is the sum of the n - 1 legs between
\* consecutive stops, rounded to metres (0 for one stop, the one leg for
\* two), and its duration is round(3 * n + sum / 80).
C21_RouteDataSums ==
  (req.op = "getRoute" /\ req.pc \in {"cache", "done"} /\ req.routeData # <<>>) =>
    LET data == req.routeData[1]
        n == Len(data.route)
        sum == LegsCm(data.route, n)
    IN /\ n >= 1
       /\ n = Len(Addresses(req.id))
       /\ \A i \in 1..n : data.route[i].order = i
       /\ data.distance = (sum + 50) \div 100
       /\ n = 1 => data.distance = 0
       /\ n = 2 => data.distance = (LegCm(data.route, 1) + 50) \div 100
       /\ data.estimatedDuration = (3 * n * 8000 + sum + 4000) \div 8000

\* A computed route of three stops with a leg that is not zero.
C21_Witness ==
  /\ req.op = "getRoute" /\ req.pc = "done" /\ req.routeData # <<>>
  /\ Len(req.routeData[1].route) = 3
  /\ req.routeData[1].distance > 0
  /\ req.res.body = req.routeData[1]

\* The centroids after j passes of the loop of the call in cluster.
RECURSIVE CentroidsAfter(_)
CentroidsAfter(j) ==
  IF j = 0
  THEN SeedCentroids(cluster.doors, cluster.k, cluster.seeds)
  ELSE NewCentroids(AssignDoors(cluster.doors, CentroidsAfter(j - 1), cluster.k))

\* C22: a call of clusterDoors that returns early runs no pass of the loop;
\* otherwise the loop runs at least one and at most maxIterations (50)
\* passes, goes on after every pass in which a centroid
\* moved by more than the threshold, stops after the first pass in which
\* none did, and the clusters returned are those of one more assignment
\* pass with the centroids the loop left.
C22_LoopBoundedOnePass ==
  /\ (cluster.pc = "done" /\ (Len(cluster.doors) = 0 \/ cluster.k >= Len(cluster.doors))) =>
       cluster.iters = 0
  /\ (cluster.pc = "done" /\ Len(cluster.doors) > 0 /\ cluster.k < Len(cluster.doors)) =>
       /\ cluster.iters \in 1..maxIterations
       /\ \A j \in 1..(cluster.iters - 1) : Moved(CentroidsAfter(j - 1), CentroidsAfter(j))
       /\ cluster.iters < maxIterations =>
            ~Moved(CentroidsAfter(cluster.iters - 1), CentroidsAfter(cluster.iters))
       /\ cluster.centroids = CentroidsAfter(cluster.iters)
       /\ cluster.clusters = AssignDoors(cluster.doors, cluster.centroids, cluster.k)

\* The loop went on after a pass that moved a centroid and stopped at a
\* pass that moved one by less than the threshold.
C22_Witness ==
  /\ cluster.pc = "done"
  /\ Len(cluster.doors) > 0 /\ cluster.k < Len(cluster.doors)
  /\ cluster.iters >= 2
  /\ cluster.iters < maxIterations
  /\ CentroidsAfter(cluster.iters - 1) # CentroidsAfter(cluster.iters)

\* The tie rule of an assignment pass: j is the lowest index among the
\* centroids at the smallest distance from the door that is a number, and 1
\* when no distance is a number.
LowestNearest(door, centroids, j) ==
  LET D(i) == haversineDistance(door.lat, door.lng, centroids[i].lat, centroids[i].lng)
  IN IF \A i \in 1..Len(centroids) : D(i) = NaN
     THEN j = 1
     ELSE /\ D(j) # NaN
          /\ \A i \in 1..Len(centroids) : D(i) # NaN => D(j) <= D(i)
          /\ \A i \in 1..(j - 1) : D(i) = NaN \/ D(j) < D(i)

PassFollowsTieRule(centroids) ==
  LET clusters == AssignDoors(cluster.doors, centroids, cluster.k)
  IN \A j \in 1..Len(clusters) :
       \A d \in 1..Len(clusters[j]) : LowestNearest(clusters[j][d], centroids, j)

\* C23: in every assignment pass of clusterDoors, those of the loop and the
\* final one, a household goes to the lowest-numbered of the centroids
\* nearest to it; in nearestNeighborRoute every stop comes before, in the
\* order of the argument, every other unvisited household at the same
\* distance from the preceding stop.  The rule leaves one choice, so the
\* clusters and the route are determined by the centroids and the argument.
C23_TiesToFirst ==
  /\ (cluster.pc = "done" /\ Len(cluster.doors) > 0 /\ cluster.k < Len(cluster.doors)) =>
       /\ \A p \in 0..(cluster.iters - 1) : PassFollowsTieRule(CentroidsAfter(p))
       /\ PassFollowsTieRule(cluster.centroids)
       /\ \A j \in 1..Len(cluster.clusters) :
            \A d \in 1..Len(cluster.clusters[j]) :
              LowestNearest(cluster.clusters[j][d], cluster.centroids, j)
  /\ (nn.pc \in {"loop", "done"}) =>
       \A k \in 2..Len(nn.route) :
         \A q \in UnvisitedAfter(k - 1) :
           StopDistance(nn.route[k - 1], q) = StopDistance(nn.route[k - 1], nn.route[k]) =>
             nn.route[k] <= q

\* A household of the final pass at the same distance from two centroids.
C23_Witness ==
  /\ cluster.pc = "done" /\ Len(cluster.doors) > 0 /\ cluster.k < Len(cluster.doors)
  /\ \E j \in 1..Len(cluster.clusters) :
       \E d \in 1..Len(cluster.clusters[j]) :
         \E i \in (j + 1)..Len(cluster.centroids) :
           LET door == cluster.clusters[j][d]
           IN /\ haversineDistance(door.lat, door.lng,
                                   cluster.centroids[i].lat, cluster.centroids[i].lng) # NaN
              /\ haversineDistance(door.lat, door.lng,
                                   cluster.centroids[i].lat, cluster.centroids[i].lng) =
                 haversineDistance(door.lat, door.lng,
                                   cluster.centroids[j].lat, cluster.centroids[j].lng)

\* The sum of a field over the turf rows an autoCut call has created.
RECURSIVE CreatedSum(_, _)
CreatedSum(field, i) ==
  IF i = 0 THEN 0 ELSE CreatedSum(field, i - 1) + turfs[req.createdTurfs[i].id][field]

\* C24: an autoCut call with the method cluster on a list with doorCount >= 1
\* households cuts with k = max(1, ceil(doorCount / doors_per_turf)): it
\* has at least one and at most min(k, doorCount) groups, one group per
\* household when k >= doorCount; when it answers, the turfs it created are
\* as many, their door_counts add up to doorCount and their voter_counts to
\* the number of geocoded voters of the list with a household key.
C24_ClusterCounts ==
  (req.op = "autoCut" /\ req.method = "cluster" /\ req.doorCount >= 1
     /\ (req.pc \in {"insert", "assign"} \/ (req.pc = "done" /\ req.res.status = 200))) =>
    LET whole == req.doorCount \div req.doors_per_turf
        k == IF whole * req.doors_per_turf = req.doorCount THEN whole ELSE whole + 1
    IN /\ req.doorCount = Cardinality({list_voters[req.list_id][n].household_id :
                                          n \in KeyedGeocoded(req.list_id)})
       /\ k >= 1
       /\ Len(req.turfs) >= 1
       /\ Len(req.turfs) <= k
       /\ Len(req.turfs) <= req.doorCount
       /\ k >= req.doorCount => Len(req.turfs) = req.doorCount
       /\ req.pc = "done" =>
            /\ Len(req.createdTurfs) = Len(req.turfs)
            /\ CreatedSum("door_count", Len(req.createdTurfs)) = req.doorCount
            /\ CreatedSum("voter_count", Len(req.createdTurfs)) =
                 Cardinality(KeyedGeocoded(req.list_id))

\* Two households cut into one turf of three voters.
C24_Witness ==
  /\ req.op = "autoCut" /\ req.method = "cluster" /\ req.pc = "done" /\ req.res.status = 200
  /\ req.doorCount = 2 /\ req.doors_per_turf = 2
  /\ Len(req.createdTurfs) = 1
  /\ turfs[req.createdTurfs[1].id].door_count = 2
  /\ turfs[req.createdTurfs[1].id].voter_count = 3

\* The geocoded voters with a membership record that carries the turf id,
\* and the household keys on these records.
GeocodedMembers(t) ==
  {n \in NCIDs : voterTable[n].located
                 /\ \E l \in ListIds : list_voters[l][n].member /\ list_voters[l][n].turf_id = t}

GeocodedKeys(t) ==
  UNION {{list_voters[l][n].household_id :
            l \in {x \in ListIds : list_voters[x][n].member /\ list_voters[x][n].turf_id = t}} :
         n \in GeocodedMembers(t)}

\* C25: a turf row is created without route and has none as long as no
\* getRoute call has stored one; the only step that stores a route is the
\* last statement of a getRoute call that found at least one address among
\* the turf's geocoded members.  A getRoute call that finds no geocoded
\* member answers the empty route with distance 0 and stores nothing; one
\* that finds some computes its route from the members of that moment.
C25_RouteAbsentUntilComputed ==
  /\ [](\A t \in TurfIds :
          (turfs[t].exists /\ routeWrites[t] = 0) => turfs[t].route_data = <<>>)
  /\ [][\A t \in TurfIds :
          /\ (~turfs[t].exists /\ turfs'[t].exists) => turfs'[t].route_data = <<>>
          /\ (turfs[t].exists /\ turfs'[t].exists
                /\ turfs'[t].route_data # turfs[t].route_data) =>
               /\ req.op = "getRoute" /\ req.pc = "cache" /\ req.id = t
               /\ Len(req.routeData[1].route) >= 1
               /\ turfs'[t].route_data = req.routeData]_vars
  /\ [][(req.op = "getRoute" /\ req.pc = "addresses" /\ other' = other
           /\ GeocodedMembers(req.id) = {}) =>
          /\ req'.pc = "done"
          /\ req'.res = [status |-> 200,
                         body |-> [route |-> <<>>, distance |-> 0, duration |-> 0]]
          /\ UNCHANGED <<turfs, list_voters, routeWrites>>]_vars
  /\ [][(req.op = "getRoute" /\ req.pc = "addresses" /\ other' = other
           /\ GeocodedMembers(req.id) # {}) =>
          /\ req'.pc = "cache"
          /\ {req'.routeData[1].route[i].household_id :
                i \in 1..Len(req'.routeData[1].route)} = GeocodedKeys(req.id)]_vars

\* A getRoute call that came between the INSERT of a turf and the UPDATE
\* of its voters got the empty route; the next one computed and stored a
\* route.
C25_Witness ==
  /\ other.op = "getRoute" /\ other.pc = "done" /\ other.res.status = 200
  /\ other.res.body = [route |-> <<>>, distance |-> 0, duration |-> 0]
  /\ req.op = "getRoute" /\ req.pc = "done" /\ req.id = other.id
  /\ ~req.hit
  /\ req.routeData # <<>>
  /\ turfs[req.id].route_data = req.routeData
  /\ routeWrites[req.id] = 1

\* C26: every turf id on a membership record is the id of a turf row that
\* exists.
C26_NoDanglingTurfId ==
  \A l \in ListIds :
    \A n \in NCIDs :
      (list_voters[l][n].member /\ list_voters[l][n].turf_id # NoTurf) =>
        turfs[list_voters[l][n].turf_id].exists

\* C27: no step of a deleteTurf call by a user who does not own the turf
\* changes the turf rows or a membership record.
C27_ForeignDeleteChangesNothing ==
  [][/\ (req'.op = "deleteTurf" /\ req'.seq = req.seq + 1
           /\ turfs[req'.id].exists /\ turfs[req'.id].user_id # req'.userId) =>
          UNCHANGED <<turfs, list_voters>>
     /\ (req.op = "deleteTurf" /\ req.pc = "delete"
           /\ turfs[req.id].exists /\ turfs[req.id].user_id # req.userId) =>
          UNCHANGED <<turfs, list_voters>>]_vars

\* C28: between calls, while no list has been duplicated, every existing turf's
\* stored voter_count is the number of membership records that carry its id.
C28_VoterCountIsCurrent ==
  (req.pc \in {"idle", "done"} /\ nextListId = 2) =>
    \A t \in TurfIds :
      turfs[t].exists => turfs[t].voter_count = Cardinality(Carrying(t))

\* C29: a membership record that carries the id of an existing turf belongs
\* to the list that owns the turf.
C29_TurfMembersInOwnList ==
  \A l \in ListIds :
    \A n \in NCIDs :
      (/\ list_voters[l][n].member
       /\ list_voters[l][n].turf_id # NoTurf
       /\ turfs[list_voters[l][n].turf_id].exists) =>
        turfs[list_voters[l][n].turf_id].list_id = l

\* C30: when an autoCut call served alone has answered 200, whatever the
\* method, the geocoded members of its list that share a household key carry
\* one turf id, and that turf was created by this call.
C30_HouseholdInOneNewTurf ==
  (req.op = "autoCut" /\ req.pc = "done" /\ req.res.status = 200) =>
    \A n \in KeyedGeocoded(req.list_id) :
      /\ list_voters[req.list_id][n].turf_id \in CreatedIds
      /\ \A m \in KeyedGeocoded(req.list_id) :
           list_voters[req.list_id][m].household_id = list_voters[req.list_id][n].household_id =>
             list_voters[req.list_id][m].turf_id = list_voters[req.list_id][n].turf_id

====
